---- MODULE Spec2Model ----
(***************************************************************************)
(* The to-do list component App (src/unnamed/part_000).                    *)
(*                                                                         *)
(* The component owns one reactive state, list (useState), and one         *)
(* non-reactive reference, inputRef (useRef), to the uncontrolled <input>. *)
(* onSubmit checks inputRef.current and hands setList a functional         *)
(* updater; the updater, not the handler, reads inputRef.current?.value.   *)
(* The host keeps the updaters it is handed in a queue and calls them, in  *)
(* order, when it next renders the component; the render maps list to one  *)
(* keyed ListItem per element.                                             *)
(*                                                                         *)
(* The host is outside the repository.  The model takes from it only what  *)
(* setList promises: a queued updater is called at the next render, in     *)
(* queue order.  When that render runs relative to later events (typing,   *)
(* further submits) is left open; a render right after each submit is one  *)
(* of the schedules.  The component never detaches the <input>, so         *)
(* inputRef.current stays resolved once the component is mounted.          *)
(***************************************************************************)
EXTENDS Naturals, Sequences, FiniteSets, TLC

\* The texts the user can put in the entry control ("" is the blank control).
Values == {"", "a", "b"}

\* Bound on the number of submits that pass the guard in one behaviour.
MaxSubmits == 3

\* inputRef.current before the <input> is attached: useRef(null).
NULL == "null"

\* The attached <input> element.
INPUT == "input"

VARIABLES
  list,        \* the state held by useState: the value the last render saw
  queue,       \* the updaters handed to setList and not yet called, oldest first
  inputRef,    \* inputRef.current: NULL or the attached control
  inputValue,  \* the value property of the <input> element
  rendered,    \* the children of <ul> in the last render output
  submitted,   \* history: the control's value at each submit that passed the guard
  applied,     \* history: for each element of list, the updater that appended it
  lastOp       \* history: the last step taken

vars == <<list, queue, inputRef, inputValue, rendered, submitted, applied, lastOp>>

Ops == {"init", "mount", "type", "submit", "skip", "render", "rerender"}

----------------------------------------------------------------------------
\* Pure parts of the component.

\* <li>{props.value}</li>
ListItem(props) == [tag |-> "li", text |-> props.value]

\* Variant: the items are emitted newest first.
ListSectionReversed(l) ==
  [i \in 1..Len(l) |->
     [key |-> i - 1, element |-> ListItem([value |-> l[Len(l) + 1 - i]])]]

\* Variant: the items are added to the ones of the previous output.
ListSectionAccumulating(l) ==
  rendered \o
  [i \in 1..Len(l) |-> [key |-> i - 1, element |-> ListItem([value |-> l[i]])]]

\* list.map((value, index) => <ListItem key={index} value={value}/>)
ListSection(l) ==
  [i \in 1..Len(l) |-> [key |-> i - 1, element |-> ListItem([value |-> l[i]])]]

\* inputRef.current?.value ?? '' , evaluated in the current state
CurrentValue == IF inputRef # NULL THEN inputValue ELSE ""

\* Variant: a blank value is rejected.
updaterRejectBlank(prevState) ==
  IF CurrentValue = "" THEN prevState ELSE Append(prevState, CurrentValue)

\* Variant: the new list is built from the list the last render saw,
\* setList([...list, value]), not from the state the host passes in.
updaterStale(prevState) == Append(list, CurrentValue)

\* (prevState) => [...prevState, inputRef.current?.value ?? '']
updater(prevState) == Append(prevState, CurrentValue)

\* The host calls the queued updaters in order, each on the result of the one before.
RECURSIVE ApplyQueue(_, _)
ApplyQueue(state, q) ==
  IF q = <<>> THEN state ELSE ApplyQueue(updater(state), Tail(q))

----------------------------------------------------------------------------
\* State machine.

TypeOK ==
  /\ list \in Seq(Values)
  /\ queue \in Seq(1..MaxSubmits)
  /\ inputRef \in {NULL, INPUT}
  /\ inputValue \in Values
  /\ submitted \in Seq(Values)
  /\ applied \in Seq(1..MaxSubmits)
  /\ lastOp \in Ops

\* useState<string[]>([]), useRef<HTMLInputElement>(null); nothing rendered yet.
Init ==
  /\ list = <<>>
  /\ queue = <<>>
  /\ inputRef = NULL
  /\ inputValue = ""
  /\ rendered = <<>>
  /\ submitted = <<>>
  /\ applied = <<>>
  /\ lastOp = "init"

\* ReactDom.render(<App />, root): the first render and commit; the commit
\* attaches the <input> to inputRef.
Mount ==
  /\ inputRef = NULL
  /\ rendered' = ListSection(list)
  /\ inputRef' = INPUT
  /\ lastOp' = "mount"
  /\ UNCHANGED <<list, queue, inputValue, submitted, applied>>

\* The user edits the uncontrolled <input>: only the element's value changes.
Type(v) ==
  /\ inputRef # NULL
  /\ inputValue' = v
  /\ lastOp' = "type"
  /\ UNCHANGED <<list, queue, inputRef, rendered, submitted, applied>>

\* Variant: no presence check before setList.
onSubmitUnguarded ==
  /\ Len(submitted) < MaxSubmits
  /\ queue' = Append(queue, Len(submitted) + 1)
  /\ submitted' = Append(submitted, inputValue)
  /\ lastOp' = "submit"
  /\ UNCHANGED <<list, inputRef, inputValue, rendered, applied>>

\* Variant: the handler empties the control after setList.
onSubmitClearing ==
  IF inputRef # NULL
  THEN /\ Len(submitted) < MaxSubmits
       /\ queue' = Append(queue, Len(submitted) + 1)
       /\ submitted' = Append(submitted, inputValue)
       /\ inputValue' = ""
       /\ lastOp' = "submit"
       /\ UNCHANGED <<list, inputRef, rendered, applied>>
  ELSE /\ lastOp' = "skip"
       /\ UNCHANGED <<list, queue, inputRef, inputValue, rendered, submitted, applied>>

\* Variant: the handler passes the guard and returns without calling setList.
onSubmitWithoutSetList ==
  IF inputRef # NULL
  THEN /\ Len(submitted) < MaxSubmits
       /\ submitted' = Append(submitted, inputValue)
       /\ lastOp' = "submit"
       /\ UNCHANGED <<list, queue, inputRef, inputValue, rendered, applied>>
  ELSE /\ lastOp' = "skip"
       /\ UNCHANGED <<list, queue, inputRef, inputValue, rendered, submitted, applied>>

\* onSubmit: the guard, then setList(updater), which queues the updater.
onSubmit ==
  IF inputRef # NULL
  THEN /\ Len(submitted) < MaxSubmits
       /\ queue' = Append(queue, Len(submitted) + 1)
       /\ submitted' = Append(submitted, inputValue)
       /\ lastOp' = "submit"
       /\ UNCHANGED <<list, inputRef, inputValue, rendered, applied>>
  ELSE /\ lastOp' = "skip"
       /\ UNCHANGED <<list, queue, inputRef, inputValue, rendered, submitted, applied>>

\* The host renders App: it calls the queued updaters to get the new list,
\* then evaluates the JSX; the same <input> stays attached.
Render ==
  /\ inputRef # NULL
  /\ list' = ApplyQueue(list, queue)
  /\ applied' = applied \o queue
  /\ queue' = <<>>
  /\ rendered' = ListSection(list')
  /\ lastOp' = IF queue = <<>> THEN "rerender" ELSE "render"
  /\ UNCHANGED <<inputRef, inputValue, submitted>>

Next ==
  \/ Mount
  \/ \E v \in Values : Type(v)
  \/ onSubmit
  \/ Render

Spec == Init /\ [][Next]_vars

\* The host renders after a state update was signalled: a scheduled render is
\* not postponed for ever.
FairSpec == Spec /\ WF_vars(Render)

----------------------------------------------------------------------------
\* Vocabulary of the properties.

IsPrefix(s, t) == Len(s) <= Len(t) /\ \A i \in 1..Len(s) : s[i] = t[i]

\* The entries the component holds: list with the signalled updates applied,
\* as the host computes them if it renders now.
Entries == ApplyQueue(list, queue)

\* The texts the rendered list shows, in order.
Shown == [i \in 1..Len(rendered) |-> rendered[i].element.text]

\* The step taken is a submit event delivered to onSubmit.
SubmitStep == lastOp' \in {"submit", "skip"}

\* The step taken is a render of App.
RenderStep == lastOp' \in {"mount", "render", "rerender"}

----------------------------------------------------------------------------
C2_GuardedSubmitIsNoOp ==
  [][(SubmitStep /\ inputRef = NULL) =>
       /\ Entries' = Entries
       /\ UNCHANGED <<list, queue, rendered, inputRef, inputValue>>]_vars

C2_Witness ==
  /\ lastOp = "skip"
  /\ inputRef = NULL
  /\ Entries = <<>>
  /\ queue = <<>>

\* C3: onSubmit validates nothing: with a resolvable control a submit appends
\* the control's value, whatever it is (blank, or already in the entries), so
\* the entries grow by one; a render keeps one element per queued update.
C3_NoValidation ==
  [][/\ (SubmitStep /\ inputRef # NULL) =>
          /\ Entries' = Append(Entries, inputValue)
          /\ Len(Entries') = Len(Entries) + 1
     /\ RenderStep => Len(list') = Len(list) + Len(queue)]_vars

C3_Witness ==
  /\ lastOp = "submit"
  /\ Len(list) = 1
  /\ list[1] = ""
  /\ Entries = <<"", "">>

C5_RenderedMirrorsList ==
  /\ Len(rendered) = Len(list)
  /\ \A i \in 1..Len(rendered) :
       /\ rendered[i].key = i - 1
       /\ rendered[i].element = [tag |-> "li", text |-> list[i]]

C5_Witness ==
  /\ lastOp = "render"
  /\ Len(list) >= 2
  /\ list[1] # list[2]
  /\ Len(rendered) = Len(list)

\* C6: a submit, guarded or not, and a redraw leave the control's value as it
\* was; two submits in a row with no typing in between append the same value
\* twice.
C6_ControlValueKept ==
  [][/\ (SubmitStep \/ RenderStep) => inputValue' = inputValue
     /\ (SubmitStep /\ lastOp = "submit" /\ inputRef # NULL) =>
          /\ Len(Entries') = Len(Entries) + 1
          /\ Len(Entries) >= 1
          /\ Entries'[Len(Entries')] = Entries[Len(Entries)]]_vars

C6_Witness ==
  /\ lastOp = "submit"
  /\ inputValue = "a"
  /\ Len(queue) >= 2
  /\ submitted[Len(submitted)] = "a"
  /\ submitted[Len(submitted) - 1] = "a"

C8_RerenderChangesNothing ==
  [][(RenderStep /\ inputRef # NULL /\ queue = <<>>) =>
       /\ rendered' = rendered
       /\ list' = list
       /\ Entries' = Entries
       /\ inputValue' = inputValue]_vars

C8_Witness ==
  /\ lastOp = "rerender"
  /\ Len(rendered) >= 2
  /\ inputValue # ""

\* While the component is mounted a further submit can always be delivered
\* (up to the bound on the submits of a behaviour).
NoTerminalState ==
  [](inputRef # NULL /\ Len(submitted) < MaxSubmits => ENABLED onSubmit)

====
